---- MODULE Spec2Model ----
(***************************************************************************)
(* Step-through Dijkstra engine of src/src/dijkstra.composable.ts          *)
(* (useDijkstra): the search state, the micro-step next(), prev() built on *)
(* useRefHistory's undo stack, and reset().                                *)
(***************************************************************************)
EXTENDS Integers, Sequences, FiniteSets, TLC

VARIABLES
  graph, start, end,   \* the refs of useDijkstra
  state,               \* state.value, a DijkstraState
  undoStack, last,     \* useRefHistory: the records, newest first, and the record of the source
  lastOp, ret,         \* observer: the last call made and what it returned
  noops,               \* observer: how many calls in a row found nothing to do
  shadow,              \* observer: the snapshots the records of undoStack were made of
  nNext, nPrev         \* observer: next() calls made, then prev() calls made after them

vars ==
  <<graph, start, end, state, undoStack, last, lastOp, ret, noops, shadow, nNext, nPrev>>

(***************************************************************************)
(* Bounds of the model.                                                    *)
(***************************************************************************)
\* longest edge list of a generated graph
MaxEdges == 1
\* edge costs of generated graphs are 0..MaxCost
MaxCost == 1
\* deepest undo stack explored (useRefHistory is created without capacity)
MaxDepth == 22
\* records kept by a run that only calls next() and never reads them
MaxKept == 1
\* most calls in a row that find nothing to do
MaxNoops == 2
\* most next() calls of a run of next() calls followed by prev() calls
MaxCalls == 8

(***************************************************************************)
(* JavaScript values.  Finite numbers are the integers of small magnitude; *)
(* the non-finite numbers and the non-number values a distance slot can    *)
(* hold are integers outside that range.                                   *)
(***************************************************************************)
Infinity == 1000000
NaN == 1000001
Null == 1000002
Undefined == 1000003

\* null for an Id | null slot (currentVertex, previous[v])
None == "null"
\* the fallback identifier of frontier selection: let minimal: Id = ''
EmptyId == ""

Range(s) == {s[i] : i \in 1..Len(s)}

\* Array.prototype.includes
Includes(s, x) == \E i \in 1..Len(s) : s[i] = x

\* Array.prototype.filter(u => u !== x)
Without(s, x) == SelectSeq(s, LAMBDA u : u # x)

\* obj[key] of a Record: undefined for a missing key
Get(obj, key) == IF key \in DOMAIN obj THEN obj[key] ELSE Undefined

\* obj[key] = value (creates the key when missing)
Put(obj, key, value) ==
  [k \in (DOMAIN obj) \cup {key} |-> IF k = key THEN value ELSE obj[k]]

\* a ?? b
Coalesce(a, b) == IF a = Null \/ a = Undefined THEN b ELSE a

\* ToNumber: null -> 0, undefined -> NaN
ToNumber(a) == IF a = Null THEN 0 ELSE IF a = Undefined THEN NaN ELSE a

\* a + b on numbers
Plus(a, b) ==
  LET x == ToNumber(a)
      y == ToNumber(b)
  IN  IF x = NaN \/ y = NaN THEN NaN
      ELSE IF x = Infinity \/ y = Infinity THEN Infinity
      ELSE x + y

\* a < b on numbers (false when either is NaN)
Less(a, b) ==
  LET x == ToNumber(a)
      y == ToNumber(b)
  IN  x # NaN /\ y # NaN /\ x < y

(***************************************************************************)
(* initDijkstra                                                            *)
(***************************************************************************)
initDistances(g, s) ==
  [id \in Range(g.vertices) \cup {s} |-> IF id = s THEN 0 ELSE Infinity]

initDijkstra(g, s) ==
  [ unvisted      |-> g.vertices,
    distances     |-> initDistances(g, s),
    previous      |-> [id \in {s} |-> None],
    currentVertex |-> None,
    currentEdge   |-> <<>>,
    edgesLeft     |-> <<>>,
    isDone        |-> FALSE ]

(***************************************************************************)
(* useRefHistory(state, { deep: true, flush: 'sync' }): records are made   *)
(* and read back with JSON.parse(JSON.stringify(x)).                       *)
(***************************************************************************)
\* JSON.stringify of a number: the non-finite ones become null
JsonNumber(x) == IF x = Infinity \/ x = NaN THEN Null ELSE x

JsonEdge(e) == [from |-> e.from, to |-> e.to, cost |-> JsonNumber(e.cost)]

JsonEdges(es) == [i \in 1..Len(es) |-> JsonEdge(es[i])]

cloneFnJSON(st) ==
  [ st EXCEPT !.distances   = [k \in DOMAIN st.distances |-> JsonNumber(st.distances[k])],
              !.currentEdge = JsonEdges(st.currentEdge),
              !.edgesLeft   = JsonEdges(st.edgesLeft) ]

\* faulty variant: prev() without its loop
NormalizeNothing(st) == st

\* faulty variant: the loop tests !distances[key], which is also true of 0
NormalizeFalsy(st) ==
  [ st EXCEPT !.distances =
      [k \in DOMAIN st.distances |->
         IF st.distances[k] = Null \/ st.distances[k] = 0
         THEN Infinity ELSE st.distances[k]] ]

\* the loop of prev(): distances[key] === null becomes Infinity
NormalizeDistances(st) ==
  [ st EXCEPT !.distances =
      [k \in DOMAIN st.distances |->
         IF st.distances[k] = Null THEN Infinity ELSE st.distances[k]] ]

(***************************************************************************)
(* The five transitions of next(), as functions of the snapshot.           *)
(***************************************************************************)
\* 1. state.value.isDone = true; state.value.currentVertex = null
Terminate(st) == [st EXCEPT !.isDone = TRUE, !.currentVertex = None]

\* the for-loop of frontier selection from position i on, <<minimal, minimalCost>>
RECURSIVE MinimalFrom(_, _, _, _)
MinimalFrom(unvisted, distances, i, acc) ==
  IF i > Len(unvisted) THEN acc
  ELSE LET id == unvisted[i]
       IN  IF Less(Coalesce(Get(distances, id), Infinity), acc[2])
           THEN MinimalFrom(unvisted, distances, i + 1, <<id, Get(distances, id)>>)
           ELSE MinimalFrom(unvisted, distances, i + 1, acc)

\* faulty variant: the loop tests <=, so the last of several equal minima wins
RECURSIVE MinimalLastFrom(_, _, _, _)
MinimalLastFrom(unvisted, distances, i, acc) ==
  IF i > Len(unvisted) THEN acc
  ELSE LET id == unvisted[i]
           cost == Coalesce(Get(distances, id), Infinity)
       IN  IF cost # Infinity /\ (Less(cost, acc[2]) \/ cost = acc[2])
           THEN MinimalLastFrom(unvisted, distances, i + 1, <<id, cost>>)
           ELSE MinimalLastFrom(unvisted, distances, i + 1, acc)

MinimalLastTie(st) ==
  MinimalLastFrom(st.unvisted, st.distances, 1, <<EmptyId, Infinity>>)[1]

\* faulty variant: let minimal = unvisted[0] instead of ''
MinimalFallsBackToFirst(st) ==
  MinimalFrom(st.unvisted, st.distances, 1,
              <<IF st.unvisted = <<>> THEN EmptyId ELSE st.unvisted[1], Infinity>>)[1]

\* faulty variant: the first unvisited vertex, whatever its distance
MinimalFirstUnvisited(st) ==
  IF st.unvisted = <<>> THEN EmptyId ELSE st.unvisted[1]

Minimal(st) == MinimalFrom(st.unvisted, st.distances, 1, <<EmptyId, Infinity>>)[1]

\* faulty variant: the .map returns every edge as stored
NormalizeKeepsDirection(edge, minimal) == edge

\* the .map of connections: an edge arriving at minimal is turned around
Normalize(edge, minimal) ==
  IF edge.to = minimal
  THEN [from |-> minimal, to |-> edge.from, cost |-> edge.cost]
  ELSE edge

\* the .filter of connections
Connected(edge, minimal, unvisted) ==
  edge.from = minimal /\ Includes(unvisted, edge.to)

Connections(g, minimal, unvisted) ==
  SelectSeq([i \in 1..Len(g.edges) |-> Normalize(g.edges[i], minimal)],
            LAMBDA edge : Connected(edge, minimal, unvisted))

\* faulty variant: the chosen vertex stays in unvisted
SelectFrontierKeepsVertex(st, g) ==
  LET minimal == Minimal(st)
  IN  [st EXCEPT !.currentVertex = minimal,
                 !.edgesLeft     = Connections(g, minimal, st.unvisted)]

\* faulty variant: choosing end already raises the flag
SelectFrontierEarlyDone(st, g) ==
  LET minimal == Minimal(st)
  IN  [st EXCEPT !.currentVertex = minimal,
                 !.edgesLeft     = Connections(g, minimal, st.unvisted),
                 !.unvisted      = Without(st.unvisted, minimal),
                 !.isDone        = (minimal = end)]

\* faulty variant: unvisted is rebuilt from the graph's vertices
SelectFrontierFromGraph(st, g) ==
  LET minimal == Minimal(st)
  IN  [st EXCEPT !.currentVertex = minimal,
                 !.edgesLeft     = Connections(g, minimal, st.unvisted),
                 !.unvisted      = Without(g.vertices, minimal)]

\* 2. select current and set up the connections that must be checked
SelectFrontier(st, g) ==
  LET minimal == Minimal(st)
  IN  [st EXCEPT !.currentVertex = minimal,
                 !.edgesLeft     = Connections(g, minimal, st.unvisted),
                 !.unvisted      = Without(st.unvisted, minimal)]

\* 3. no edge left to check
CompleteExpansion(st) == [st EXCEPT !.currentVertex = None]

\* 4. select target
DequeueEdge(st) ==
  [st EXCEPT !.currentEdge = <<st.edgesLeft[1]>>,
             !.edgesLeft   = Tail(st.edgesLeft)]

\* faulty variant: only a vertex not reached yet is given a distance
ImprovesUnreachedOnly(st, edge) ==
  Coalesce(Get(st.distances, edge.to), Infinity) = Infinity

\* faulty variant: the comparison the wrong way round
ImprovesReversed(st, edge) ==
  Less(Coalesce(Get(st.distances, edge.to), Infinity),
       Plus(Get(st.distances, edge.from), edge.cost))

\* faulty variant: <= instead of <
ImprovesOrEqual(st, edge) ==
  ~Less(Coalesce(Get(st.distances, edge.to), Infinity),
        Plus(Get(st.distances, edge.from), edge.cost))

\* the test of step 5
Improves(st, edge) ==
  Less(Plus(Get(st.distances, edge.from), edge.cost),
       Coalesce(Get(st.distances, edge.to), Infinity))

\* faulty variant: the else branch does not consume the edge
RelaxKeepsEdge(st) ==
  LET edge == st.currentEdge[1]
  IN  IF Less(Plus(Get(st.distances, edge.from), edge.cost),
              Coalesce(Get(st.distances, edge.to), Infinity))
      THEN [st EXCEPT
              !.distances   = Put(st.distances, edge.to,
                                  Plus(Get(st.distances, edge.from), edge.cost)),
              !.previous    = Put(st.previous, edge.to, edge.from),
              !.currentEdge = <<>>]
      ELSE st

\* faulty variant: the new distance is the edge's cost alone
RelaxCostOnly(st) ==
  LET edge == st.currentEdge[1]
  IN  IF Less(Plus(Get(st.distances, edge.from), edge.cost),
              Coalesce(Get(st.distances, edge.to), Infinity))
      THEN [st EXCEPT
              !.distances   = Put(st.distances, edge.to, edge.cost),
              !.previous    = Put(st.previous, edge.to, edge.from),
              !.currentEdge = <<>>]
      ELSE [st EXCEPT !.currentEdge = <<>>]

\* faulty variant: the writes of step 5 happen without the comparison
RelaxAlways(st) ==
  LET edge == st.currentEdge[1]
  IN  [st EXCEPT
         !.distances   = Put(st.distances, edge.to,
                             Plus(Get(st.distances, edge.from), edge.cost)),
         !.previous    = Put(st.previous, edge.to, edge.from),
         !.currentEdge = <<>>]

\* faulty variant: previous[edge.to] = edge.to
RelaxParentIsTarget(st) ==
  LET edge == st.currentEdge[1]
  IN  IF Improves(st, edge)
      THEN [st EXCEPT
              !.distances   = Put(st.distances, edge.to,
                                  Plus(Get(st.distances, edge.from), edge.cost)),
              !.previous    = Put(st.previous, edge.to, edge.to),
              !.currentEdge = <<>>]
      ELSE [st EXCEPT !.currentEdge = <<>>]

\* 5. check distance to target and update it
Relax(st) ==
  LET edge == st.currentEdge[1]
  IN  IF Improves(st, edge)
      THEN [st EXCEPT
              !.distances   = Put(st.distances, edge.to,
                                  Plus(Get(st.distances, edge.from), edge.cost)),
              !.previous    = Put(st.previous, edge.to, edge.from),
              !.currentEdge = <<>>]
      ELSE [st EXCEPT !.currentEdge = <<>>]

(***************************************************************************)
(* History: commit, undo, clear of useRefHistory.                          *)
(***************************************************************************)
Min(a, b) == IF a < b THEN a ELSE b

\* the newest MaxKept records of a stack
Window(stack) == SubSeq(stack, 1, Min(Len(stack), MaxKept))

\* commit(): undoStack.unshift(last); last = record of the source.
\* windowed = FALSE explores stacks up to MaxDepth records; windowed = TRUE
\* keeps the newest MaxKept records (for runs that never read the stack).
commit(st, windowed) ==
  /\ windowed \/ Len(undoStack) < MaxDepth
  /\ undoStack' = IF windowed THEN Window(<<last>> \o undoStack)
                              ELSE <<last>> \o undoStack
  /\ shadow' = IF windowed THEN Window(<<state>> \o shadow)
                           ELSE <<state>> \o shadow
  /\ last' = cloneFnJSON(st)

\* batch(fn): the mutations of fn, then one commit
batch(st, windowed) ==
  /\ state' = st
  /\ commit(st, windowed)

(***************************************************************************)
(* next(): one action per branch; the guards are the tests passed on the   *)
(* way to the branch.                                                      *)
(***************************************************************************)
Returns(op, value) == lastOp' = op /\ ret' = value /\ noops' = 0

\* a call that found nothing to do
ReturnsIdle(op, value) ==
  noops < MaxNoops /\ lastOp' = op /\ ret' = value /\ noops' = noops + 1

EndFinalized == ~Includes(state.unvisted, end)

\* faulty variant: the termination branch without its test of isDone
NextDoneCommits ==
  /\ EndFinalized
  /\ state.isDone
  /\ batch(Terminate(state), FALSE)
  /\ ReturnsIdle("next", TRUE)
  /\ UNCHANGED <<graph, start, end>>

NextDone ==
  /\ EndFinalized
  /\ state.isDone
  /\ ReturnsIdle("next", TRUE)
  /\ UNCHANGED <<graph, start, end, state, undoStack, last, shadow>>

NextTerminate(windowed) ==
  /\ EndFinalized
  /\ ~state.isDone
  /\ batch(Terminate(state), windowed)
  /\ Returns("next", TRUE)
  /\ UNCHANGED <<graph, start, end>>

NextSelect(windowed) ==
  /\ ~EndFinalized
  /\ state.currentVertex = None
  /\ batch(SelectFrontier(state, graph), windowed)
  /\ Returns("next", FALSE)
  /\ UNCHANGED <<graph, start, end>>

\* faulty variant: step 3 tests edgesLeft alone
NextCompleteIgnoresEdge(windowed) ==
  /\ ~EndFinalized
  /\ state.currentVertex # None
  /\ Len(state.edgesLeft) = 0
  /\ batch(CompleteExpansion(state), windowed)
  /\ Returns("next", FALSE)
  /\ UNCHANGED <<graph, start, end>>

NextComplete(windowed) ==
  /\ ~EndFinalized
  /\ state.currentVertex # None
  /\ Len(state.edgesLeft) = 0 /\ state.currentEdge = <<>>
  /\ batch(CompleteExpansion(state), windowed)
  /\ Returns("next", FALSE)
  /\ UNCHANGED <<graph, start, end>>

\* faulty variant: step 4 is reached although end has left unvisted
NextDequeueBeforeDone(windowed) ==
  /\ ~state.isDone
  /\ state.currentVertex # None
  /\ ~(Len(state.edgesLeft) = 0 /\ state.currentEdge = <<>>)
  /\ state.currentEdge = <<>>
  /\ batch(DequeueEdge(state), windowed)
  /\ Returns("next", FALSE)
  /\ UNCHANGED <<graph, start, end>>

NextDequeue(windowed) ==
  /\ ~EndFinalized
  /\ state.currentVertex # None
  /\ ~(Len(state.edgesLeft) = 0 /\ state.currentEdge = <<>>)
  /\ state.currentEdge = <<>>
  /\ batch(DequeueEdge(state), windowed)
  /\ Returns("next", FALSE)
  /\ UNCHANGED <<graph, start, end>>

NextRelax(windowed) ==
  /\ ~EndFinalized
  /\ state.currentVertex # None
  /\ state.currentEdge # <<>>
  /\ batch(Relax(state), windowed)
  /\ Returns("next", FALSE)
  /\ UNCHANGED <<graph, start, end>>

\* the snapshot next() leaves, as a function of the snapshot it finds
nextSnapshot(st, g, e) ==
  IF ~Includes(st.unvisted, e)
  THEN IF st.isDone THEN st ELSE Terminate(st)
  ELSE IF st.currentVertex = None THEN SelectFrontier(st, g)
  ELSE IF Len(st.edgesLeft) = 0 /\ st.currentEdge = <<>> THEN CompleteExpansion(st)
  ELSE IF st.currentEdge = <<>> THEN DequeueEdge(st)
  ELSE Relax(st)

(***************************************************************************)
(* prev() and reset()                                                      *)
(***************************************************************************)
\* faulty variant: the source is set to last, the record of the current value
undoRestoresLast(st, stack, lst) ==
  IF stack # <<>>
  THEN [state |-> cloneFnJSON(lst), undoStack |-> Tail(stack), last |-> Head(stack)]
  ELSE [state |-> st, undoStack |-> stack, last |-> lst]

\* undo(): the source is set to the parsed top record, which becomes last
undo(st, stack, lst) ==
  IF stack # <<>>
  THEN [state |-> cloneFnJSON(Head(stack)), undoStack |-> Tail(stack), last |-> Head(stack)]
  ELSE [state |-> st, undoStack |-> stack, last |-> lst]

\* faulty variant: the loop runs without pause(), so its writes are committed
prevUnpaused ==
  LET u == undo(state, undoStack, last)
      written == \E k \in DOMAIN u.state.distances : u.state.distances[k] = Null
  IN  /\ state' = NormalizeDistances(u.state)
      /\ undoStack' = IF written THEN <<u.last>> \o u.undoStack ELSE u.undoStack
      /\ last' = IF written THEN cloneFnJSON(NormalizeDistances(u.state)) ELSE u.last
      /\ shadow' = IF undoStack = <<>> THEN shadow
                   ELSE IF written THEN <<u.state>> \o Tail(shadow) ELSE Tail(shadow)
      /\ IF undoStack = <<>> THEN ReturnsIdle("prev", FALSE) ELSE Returns("prev", FALSE)
      /\ UNCHANGED <<graph, start, end>>

prev ==
  LET u == undo(state, undoStack, last)
  IN  /\ state' = NormalizeDistances(u.state)
      /\ undoStack' = u.undoStack
      /\ last' = u.last
      /\ shadow' = IF undoStack = <<>> THEN shadow ELSE Tail(shadow)
      /\ IF undoStack = <<>> THEN ReturnsIdle("prev", FALSE) ELSE Returns("prev", FALSE)
      /\ UNCHANGED <<graph, start, end>>

\* faulty variant: reset() without clear()
clearNothing(stack) == stack

\* clear(): both stacks emptied, last kept
clear(stack) == <<>>

\* reset: the assignment to state.value is committed by the sync watcher,
\* then clear() empties the stack
resetTo(newGraph, newStart, newEnd) ==
  /\ start' = newStart
  /\ end' = newEnd
  /\ graph' = newGraph
  /\ state' = initDijkstra(newGraph, newStart)
  /\ last' = cloneFnJSON(initDijkstra(newGraph, newStart))
  /\ undoStack' = clear(<<last>> \o undoStack)
  /\ shadow' = <<>>
  /\ Returns("reset", FALSE)

(***************************************************************************)
(* Inputs                                                                  *)
(***************************************************************************)
Ids3 == {"A", "B", "C"}

\* Object.keys(graph.vertices): distinct identifiers in insertion order
VertexSeqs ==
  {s \in UNION {[1..n -> Ids3] : n \in 0..Cardinality(Ids3)} :
     \A i, j \in DOMAIN s : i # j => s[i] # s[j]}

Edges == [from : Ids3, to : Ids3, cost : 0..MaxCost]

EdgeSeqs == UNION {[1..n -> Edges] : n \in 0..MaxEdges}

GenGraphs == [vertices : VertexSeqs, edges : EdgeSeqs]

defaultGraph ==
  [ vertices |-> <<"A", "B", "C", "D", "E">>,
    edges    |-> << [from |-> "A", to |-> "B", cost |-> 2],
                    [from |-> "A", to |-> "C", cost |-> 1],
                    [from |-> "B", to |-> "C", cost |-> 3],
                    [from |-> "B", to |-> "D", cost |-> 2],
                    [from |-> "C", to |-> "D", cost |-> 8],
                    [from |-> "C", to |-> "E", cost |-> 3] >> ]

defaultInput == [g |-> defaultGraph, s |-> "A", e |-> "D"]

\* the identifiers are interchangeable and every vertex order is generated,
\* so generated runs start at "A" (a vertex of the graph or not)
Inputs == [g : GenGraphs, s : {"A"}, e : Ids3] \cup {defaultInput}

\* the triples reset() is called with
ResetInputs ==
  { defaultInput,
    [g |-> [vertices |-> <<"B", "A">>,
            edges |-> <<[from |-> "B", to |-> "A", cost |-> 1]>>],
     s |-> "B", e |-> "A"],
    [g |-> [vertices |-> <<"A", "C">>, edges |-> <<>>], s |-> "A", e |-> "C"] }

reset == \E in \in ResetInputs : resetTo(in.g, in.s, in.e)

(***************************************************************************)
(* Specifications                                                          *)
(***************************************************************************)
\* useDijkstra(initGraph, initStart, initEnd)
Init ==
  \E in \in Inputs :
    /\ graph = in.g
    /\ start = in.s
    /\ end = in.e
    /\ state = initDijkstra(in.g, in.s)
    /\ undoStack = <<>>
    /\ last = cloneFnJSON(initDijkstra(in.g, in.s))
    /\ lastOp = "init"
    /\ ret = FALSE
    /\ noops = 0
    /\ shadow = <<>>
    /\ nNext = 0
    /\ nPrev = 0

\* the call counters stand still
Uncounted == UNCHANGED <<nNext, nPrev>>

\* any interleaving of next(), prev() and reset()
Next ==
  \/ NextDone /\ Uncounted
  \/ NextTerminate(FALSE) /\ Uncounted
  \/ NextSelect(FALSE) /\ Uncounted
  \/ NextComplete(FALSE) /\ Uncounted
  \/ NextDequeue(FALSE) /\ Uncounted
  \/ NextRelax(FALSE) /\ Uncounted
  \/ prev /\ Uncounted
  \/ reset /\ Uncounted

Spec == Init /\ [][Next]_vars

\* only next() is called, again and again
LiveNext ==
  \/ NextDone /\ Uncounted
  \/ NextTerminate(TRUE) /\ Uncounted
  \/ NextSelect(TRUE) /\ Uncounted
  \/ NextComplete(TRUE) /\ Uncounted
  \/ NextDequeue(TRUE) /\ Uncounted
  \/ NextRelax(TRUE) /\ Uncounted

LiveSpec == Init /\ [][LiveNext]_vars /\ WF_vars(LiveNext)

\* one more next() call of a run that has not gone back yet
CountedNext ==
  /\ nPrev = 0
  /\ nNext < MaxCalls
  /\ nNext' = nNext + 1
  /\ UNCHANGED nPrev

\* one more prev() call, at most as many as next() calls were made
CountedPrev ==
  /\ nPrev < nNext
  /\ nPrev' = nPrev + 1
  /\ UNCHANGED nNext

\* k next() calls, then up to k prev() calls
RoundTripNext ==
  \/ NextDone /\ CountedNext
  \/ NextTerminate(FALSE) /\ CountedNext
  \/ NextSelect(FALSE) /\ CountedNext
  \/ NextComplete(FALSE) /\ CountedNext
  \/ NextDequeue(FALSE) /\ CountedNext
  \/ NextRelax(FALSE) /\ CountedNext
  \/ prev /\ CountedPrev

RoundTripSpec == Init /\ [][RoundTripNext]_vars

(***************************************************************************)
(* Graph notions the properties are stated with.                           *)
(***************************************************************************)
Vertices(g) == Range(g.vertices)

NonNegative(g) == \A i \in DOMAIN g.edges : g.edges[i].cost >= 0

\* the edges of g between two of its vertices, either way round
Joins(g, i, u, v) ==
  /\ {u, v} \subseteq Vertices(g)
  /\ \/ g.edges[i].from = u /\ g.edges[i].to = v
     \/ g.edges[i].from = v /\ g.edges[i].to = u

RECURSIVE ReachFrom(_, _)
ReachFrom(g, S) ==
  LET T == S \cup {v \in Vertices(g) :
                     \E u \in S : \E i \in DOMAIN g.edges : Joins(g, i, u, v)}
  IN  IF T = S THEN S ELSE ReachFrom(g, T)

\* the vertices joined to s by a path of edges read as undirected
Reach(g, s) == IF s \in Vertices(g) THEN ReachFrom(g, {s}) ELSE {}

Least(S) == CHOOSE x \in S : \A y \in S : x <= y

\* cost of a cheapest walk of at most n edges from s to v (Infinity: none)
RECURSIVE Cheapest(_, _, _, _)
Cheapest(g, s, v, n) ==
  IF n = 0 THEN (IF v = s THEN 0 ELSE Infinity)
  ELSE Least({Cheapest(g, s, v, n - 1)} \cup
             {Cheapest(g, s, u, n - 1) + g.edges[i].cost :
                <<u, i>> \in {p \in Vertices(g) \X DOMAIN g.edges :
                                /\ Joins(g, p[2], p[1], v)
                                /\ Cheapest(g, s, p[1], n - 1) < Infinity}})

ShortestCost(g, s, v) == Cheapest(g, s, v, Cardinality(Vertices(g)))

\* a connected graph with non-negative costs that holds start and end
ConnectedInput ==
  /\ start \in Vertices(graph)
  /\ end \in Vertices(graph)
  /\ NonNegative(graph)
  /\ Reach(graph, start) = Vertices(graph)

\* end is a vertex that no path joins to start
DisconnectedEnd ==
  /\ end \in Vertices(graph)
  /\ end \notin Reach(graph, start)

\* st is the initial snapshot for (g, s), field for field
IsInitialSnapshot(st, g, s) ==
  /\ st.unvisted = g.vertices
  /\ DOMAIN st.distances = Vertices(g) \cup {s}
  /\ \A id \in DOMAIN st.distances : st.distances[id] = IF id = s THEN 0 ELSE Infinity
  /\ DOMAIN st.previous = {s}
  /\ st.previous[s] = None
  /\ st.currentVertex = None
  /\ st.currentEdge = <<>>
  /\ st.edgesLeft = <<>>
  /\ st.isDone = FALSE

(***************************************************************************)
(* C1..C10                                                                 *)
(***************************************************************************)
\* C1: on a connected graph with non-negative costs that holds start and
\* end, repeated next() calls eventually reach isDone = true.
C1_ConnectedTerminates == ConnectedInput ~> state.isDone

C1_Witness ==
  /\ ConnectedInput
  /\ start # end
  /\ Cardinality(Vertices(graph)) >= 3
  /\ state.isDone

\* C2: on such a graph, whenever isDone is true distances[end] is the cost
\* of a cheapest path from start to end over the edges read as undirected.
C2_DoneDistanceIsShortest ==
  (ConnectedInput /\ state.isDone) =>
    state.distances[end] = ShortestCost(graph, start, end)

C2_Witness ==
  /\ ConnectedInput
  /\ state.isDone
  /\ state.distances[end] > 0
  /\ state.previous[end] # start

\* C3: when end is a vertex not connected to start, repeated next() calls
\* eventually reach isDone = true.
C3_DisconnectedTerminates == DisconnectedEnd ~> state.isDone

\* the five transitions, told apart by what a step does to the snapshot
IsTermination(s, t) == ~s.isDone /\ t.isDone
IsSelection(s, t) == s.currentVertex = None /\ t.currentVertex # None
IsCompletion(s, t) ==
  s.currentVertex # None /\ t.currentVertex = None /\ t.isDone = s.isDone
IsDequeue(s, t) == s.currentEdge = <<>> /\ t.currentEdge # <<>>
IsRelax(s, t) == s.currentEdge # <<>> /\ t.currentEdge = <<>>

TransitionsTaken(s, t) ==
  {k \in 1..5 :
     \/ k = 1 /\ IsTermination(s, t)
     \/ k = 2 /\ IsSelection(s, t)
     \/ k = 3 /\ IsCompletion(s, t)
     \/ k = 4 /\ IsDequeue(s, t)
     \/ k = 5 /\ IsRelax(s, t)}

\* C4: a next() call made while isDone is false performs exactly one of the
\* five transitions, changes the snapshot and adds exactly one history entry.
C4_OneStepOneRecord ==
  [][ (lastOp' = "next" /\ ~state.isDone) =>
        /\ Cardinality(TransitionsTaken(state, state')) = 1
        /\ state' # state
        /\ Len(undoStack') = Len(undoStack) + 1
        /\ Tail(undoStack') = undoStack ]_vars

C4_Witness ==
  /\ lastOp = "next"
  /\ ~state.isDone
  /\ state.currentEdge # <<>>
  /\ Len(undoStack) >= 2

\* C5: next() returns true exactly when isDone is true after the call; the
\* call that selects end as frontier vertex returns false with isDone false.
C5_ReturnsDone ==
  lastOp = "next" =>
    /\ ret = state.isDone
    /\ state.currentVertex = end => (~ret /\ ~state.isDone)

C5_Witness ==
  /\ lastOp = "next"
  /\ state.currentVertex = end
  /\ ~Includes(state.unvisted, end)
  /\ ~ret

\* C6: k next() calls from the initial snapshot followed by k prev() calls
\* leave the snapshot equal to the initial snapshot, field for field.
C6_RoundTrip ==
  nPrev = nNext => IsInitialSnapshot(state, graph, start)

C6_Witness ==
  /\ nPrev = nNext
  /\ nNext >= 5
  /\ lastOp = "prev"
  /\ \E id \in DOMAIN state.distances : state.distances[id] = Infinity

\* C7: with isDone true, next() returns true and changes neither the
\* snapshot nor the history, so one prev() after any number of such calls
\* restores the snapshot that preceded the terminating step.
C7_DoneIsNoop ==
  [][ state.isDone =>
        /\ lastOp' = "next" =>
             /\ ret'
             /\ state' = state
             /\ undoStack' = undoStack
             /\ last' = last
        /\ lastOp' = "prev" =>
             /\ ~state'.isDone
             /\ [state' EXCEPT !.isDone = TRUE, !.currentVertex = None] = state
             /\ Len(undoStack') = Len(undoStack) - 1 ]_vars

C7_Witness ==
  /\ state.isDone
  /\ lastOp = "next"
  /\ noops = MaxNoops

\* C8: prev() with an empty undo history leaves the snapshot unchanged.
C8_PrevAtBottom ==
  [][ (lastOp' = "prev" /\ undoStack = <<>>) =>
        /\ state' = state
        /\ undoStack' = <<>>
        /\ last' = last ]_vars

C8_Witness ==
  /\ lastOp = "prev"
  /\ noops >= 1
  /\ undoStack = <<>>

\* C9: reset(g, s, e) leaves the initial snapshot for (g, s, e) and an empty
\* undo history; a prev() right after it changes nothing.
C9_ResetIsInitial ==
  [][ /\ lastOp' = "reset" =>
           /\ IsInitialSnapshot(state', graph', start')
           /\ undoStack' = <<>>
      /\ (lastOp = "reset" /\ lastOp' = "prev") =>
           /\ state' = state
           /\ undoStack' = <<>> ]_vars

C9_Witness ==
  /\ lastOp = "prev"
  /\ noops = 1
  /\ start = "B"
  /\ IsInitialSnapshot(state, graph, start)

\* C10: on the graph A..E of the example with start A and end D, the state
\* with isDone true has distances A=0, B=2, C=1, D=4, E=4 and previous
\* B<-A, C<-A, D<-B, E<-C, A<-none.
C10_Example ==
  (graph = defaultGraph /\ start = "A" /\ end = "D" /\ state.isDone) =>
    /\ state.distances = [id \in {"A", "B", "C", "D", "E"} |->
                            CASE id = "A" -> 0 [] id = "B" -> 2 [] id = "C" -> 1
                              [] id = "D" -> 4 [] id = "E" -> 4]
    /\ state.previous = [id \in {"A", "B", "C", "D", "E"} |->
                           CASE id = "A" -> None [] id = "B" -> "A" [] id = "C" -> "A"
                             [] id = "D" -> "B" [] id = "E" -> "C"]

C10_Witness ==
  /\ graph = defaultGraph
  /\ start = "A"
  /\ end = "D"
  /\ state.isDone
  /\ Len(undoStack) = 20

(***************************************************************************)
(* C11..C20                                                                *)
(***************************************************************************)
\* C11: along next() calls no distance grows: for every vertex the value
\* after a call is less than or equal to the value before it.
C11_DistancesNeverGrow ==
  [][ lastOp' = "next" =>
        \A v \in DOMAIN state.distances :
          /\ v \in DOMAIN state'.distances
          /\ state'.distances[v] <= state.distances[v] ]_vars

C11_Witness ==
  /\ lastOp = "next"
  /\ shadow # <<>>
  /\ \E v \in DOMAIN state.distances :
       /\ Head(shadow).distances[v] < Infinity
       /\ state.distances[v] < Head(shadow).distances[v]

\* C12: along next() calls unvisited only shrinks: a vertex absent from it
\* before a call is absent after the call.
C12_UnvisitedShrinks ==
  [][ lastOp' = "next" =>
        Range(state'.unvisted) \subseteq Range(state.unvisted) ]_vars

C12_Witness ==
  /\ lastOp = "next"
  /\ ~state.isDone
  /\ Len(state.unvisted) + 3 <= Len(graph.vertices)

\* C13: edgesLeft is non-empty only if currentVertex is non-none; in
\* particular it is empty whenever isDone is true.
C13_EdgesLeftNeedCurrent ==
  /\ state.edgesLeft # <<>> => state.currentVertex # None
  /\ state.isDone => state.edgesLeft = <<>>

\* C14: currentEdge is non-none only if currentVertex is non-none.
C14_EdgeNeedsCurrent ==
  state.currentEdge # <<>> => state.currentVertex # None

C14_Witness ==
  /\ lastOp = "next"
  /\ state.currentEdge # <<>>
  /\ state.edgesLeft = <<>>
  /\ Len(shadow) >= 4

\* C15: with non-negative costs (self-loops on start included),
\* distances[start] is 0 and previous[start] is none in every state.
C15_StartStaysRoot ==
  NonNegative(graph) =>
    /\ start \in DOMAIN state.distances
    /\ state.distances[start] = 0
    /\ start \in DOMAIN state.previous
    /\ state.previous[start] = None

\* a self-loop on start has just been examined
C15_Witness ==
  /\ lastOp = "next"
  /\ shadow # <<>>
  /\ Head(shadow).currentEdge # <<>>
  /\ Head(shadow).currentEdge[1].from = start
  /\ Head(shadow).currentEdge[1].to = start
  /\ state.currentEdge = <<>>

\* C16: after prev() no distance holds the null marker: the distances are
\* those of the snapshot restored, infinite entries as Infinity and finite
\* ones unchanged, and the history is one record shorter, none added.
C16_PrevRestoresInfinity ==
  [][ lastOp' = "prev" =>
        /\ \A k \in DOMAIN state'.distances : state'.distances[k] # Null
        /\ undoStack # <<>> =>
             /\ DOMAIN state'.distances = DOMAIN Head(shadow).distances
             /\ \A k \in DOMAIN state'.distances :
                  /\ state'.distances[k] = Head(shadow).distances[k]
                  /\ Head(undoStack).distances[k] = Null
                       <=> state'.distances[k] = Infinity
             /\ Len(undoStack') = Len(undoStack) - 1
        /\ undoStack = <<>> => undoStack' = <<>> ]_vars

C16_Witness ==
  /\ lastOp = "prev"
  /\ noops = 0
  /\ undoStack # <<>>
  /\ \E k \in DOMAIN state.distances : state.distances[k] = Infinity
  /\ \E k \in DOMAIN state.distances :
       state.distances[k] > 0 /\ state.distances[k] < Infinity

\* the unvisited vertex of least distance that comes first in unvisted
FirstLeast(st) ==
  LET u == st.unvisted
      i == CHOOSE i \in 1..Len(u) :
             /\ \A j \in 1..Len(u) : st.distances[u[i]] <= st.distances[u[j]]
             /\ \A j \in 1..(i - 1) : st.distances[u[j]] > st.distances[u[i]]
  IN  u[i]

HasFinite(st) ==
  \E i \in 1..Len(st.unvisted) : st.distances[st.unvisted[i]] < Infinity

\* u lists some of the identifiers of vs, in the order of vs
KeepsOrder(u, vs) == u = SelectSeq(vs, LAMBDA x : x \in Range(u))

\* C17: frontier selection, when some unvisited vertex has a finite
\* distance, chooses the unvisited vertex of least distance that comes first
\* in unvisted, and unvisted keeps the order of the graph's vertices.
C17_SelectionRule ==
  [][ /\ KeepsOrder(state'.unvisted, graph'.vertices)
      /\ (lastOp' = "next" /\ IsSelection(state, state') /\ HasFinite(state)) =>
           /\ state'.currentVertex = FirstLeast(state)
           /\ state'.unvisted = Without(state.unvisted, FirstLeast(state)) ]_vars

\* the vertex just chosen tied with one that is still unvisited
C17_Witness ==
  /\ lastOp = "next"
  /\ shadow # <<>>
  /\ IsSelection(Head(shadow), state)
  /\ \E i \in 1..Len(state.unvisted) :
       /\ state.distances[state.unvisted[i]] < Infinity
       /\ state.distances[state.unvisted[i]] = state.distances[state.currentVertex]

\* start is no vertex of the graph (end is), or the graph has no vertex
NothingReachable ==
  \/ start \notin Vertices(graph) /\ end \in Vertices(graph)
  \/ Vertices(graph) = {}

\* C18: with a missing start or an empty graph, repeated next() calls reach
\* isDone = true, no vertex leaves unvisited and every distance of a vertex
\* stays infinite.
C18_NothingReachableTerminates ==
  /\ NothingReachable ~> state.isDone
  /\ [](NothingReachable =>
          /\ state.unvisted = graph.vertices
          /\ \A v \in Vertices(graph) : state.distances[v] = Infinity)

\* C19: when end is a vertex not connected to start, distances[end] is
\* Infinity, previous has no entry for end and end is in unvisited.
C19_DisconnectedEndUntouched ==
  DisconnectedEnd =>
    /\ state.distances[end] = Infinity
    /\ end \notin DOMAIN state.previous
    /\ Includes(state.unvisted, end)

C19_Witness ==
  /\ DisconnectedEnd
  /\ start \in Vertices(graph)
  /\ lastOp = "prev"
  /\ Len(undoStack) >= 4

\* C20: with non-negative costs, a vertex that has left unvisited has the
\* cost of a cheapest undirected path from start as its distance, from the
\* step that selects it on, and no later next() call changes its distance or
\* its previous entry.
C20_FinalizedIsShortest ==
  [][ (lastOp' = "next" /\ NonNegative(graph)) =>
        \A v \in Vertices(graph) \ Range(state'.unvisted) :
          /\ state'.distances[v] = ShortestCost(graph, start, v)
          /\ v \notin Range(state.unvisted) =>
               /\ state'.distances[v] = state.distances[v]
               /\ (v \in DOMAIN state'.previous) <=> (v \in DOMAIN state.previous)
               /\ v \in DOMAIN state.previous =>
                    state'.previous[v] = state.previous[v] ]_vars

C20_Witness ==
  /\ graph = defaultGraph
  /\ lastOp = "next"
  /\ state.currentVertex = "D"
  /\ state.previous["D"] = "B"
  /\ ~Includes(state.unvisted, "D")

(***************************************************************************)
(* C21..C27                                                                *)
(***************************************************************************)
\* C21: a frontier-selection step removes exactly one vertex from unvisited,
\* the one it stores in currentVertex; so a non-none currentVertex names a
\* vertex of the graph that is not in unvisited.
C21_SelectionRemovesCurrent ==
  [][ /\ (lastOp' = "next" /\ IsSelection(state, state')) =>
           /\ Includes(state.unvisted, state'.currentVertex)
           /\ state'.unvisted = Without(state.unvisted, state'.currentVertex)
      /\ state'.currentVertex # None =>
           /\ state'.currentVertex \in Vertices(graph')
           /\ ~Includes(state'.unvisted, state'.currentVertex) ]_vars

\* the identifiers of S in increasing order
RECURSIVE Ordered(_)
Ordered(S) ==
  IF S = {} THEN <<>> ELSE <<Least(S)>> \o Ordered(S \ {Least(S)})

OtherEnd(edge, m) == IF edge.from = m THEN edge.to ELSE edge.from

\* one entry per edge of g that touches m and whose other endpoint is in U,
\* in the order of g.edges, leading away from m
Incident(g, m, U) ==
  LET idx == Ordered({i \in DOMAIN g.edges :
                        /\ g.edges[i].from = m \/ g.edges[i].to = m
                        /\ OtherEnd(g.edges[i], m) \in U})
  IN  [k \in 1..Len(idx) |->
         [from |-> m, to |-> OtherEnd(g.edges[idx[k]], m), cost |-> g.edges[idx[k]].cost]]

\* C22: after a frontier-selection step choosing m, edgesLeft holds, in the
\* graph's edge order, one entry {from: m, to: other endpoint, cost} per graph
\* edge incident to m whose other endpoint was in unvisited before the step,
\* and the graph's edge list is unchanged.
C22_EdgesLeftAreIncident ==
  [][ (lastOp' = "next" /\ IsSelection(state, state')) =>
        /\ state'.edgesLeft =
             Incident(graph, state'.currentVertex, Range(state.unvisted))
        /\ graph' = graph ]_vars

\* an edge stored as arriving at the chosen vertex is queued turned around,
\* next to another edge
C22_Witness ==
  /\ lastOp = "next"
  /\ shadow # <<>>
  /\ IsSelection(Head(shadow), state)
  /\ Len(state.edgesLeft) >= 2
  /\ Len(state.edgesLeft) < Len(graph.edges)
  /\ \E i \in DOMAIN graph.edges : \E k \in DOMAIN state.edgesLeft :
       /\ graph.edges[i].to = state.currentVertex
       /\ state.edgesLeft[k].to = graph.edges[i].from

\* next() finds an edge to examine
IsRelaxCall(st) ==
  /\ Includes(st.unvisted, end)
  /\ st.currentVertex # None
  /\ st.currentEdge # <<>>

\* C23: distances and previous change only in relax steps: a relax step on
\* edge e writes distances[e.to] = distances[e.from] + e.cost and
\* previous[e.to] = e.from exactly when the sum is strictly less than
\* distances[e.to] (missing counted as Infinity), touches no other entry,
\* clears currentEdge and leaves the other fields alone; every other step
\* leaves distances and previous unchanged.
C23_OnlyRelaxWrites ==
  [][ lastOp' = "next" =>
        IF IsRelaxCall(state)
        THEN LET e   == state.currentEdge[1]
                 sum == state.distances[e.from] + e.cost
                 old == IF e.to \in DOMAIN state.distances
                        THEN state.distances[e.to] ELSE Infinity
             IN  /\ state'.currentEdge = <<>>
                 /\ state'.unvisted = state.unvisted
                 /\ state'.currentVertex = state.currentVertex
                 /\ state'.edgesLeft = state.edgesLeft
                 /\ state'.isDone = state.isDone
                 /\ IF sum < old
                    THEN /\ DOMAIN state'.distances = DOMAIN state.distances \cup {e.to}
                         /\ DOMAIN state'.previous = DOMAIN state.previous \cup {e.to}
                         /\ state'.distances[e.to] = sum
                         /\ state'.previous[e.to] = e.from
                         /\ \A k \in DOMAIN state.distances \ {e.to} :
                              state'.distances[k] = state.distances[k]
                         /\ \A k \in DOMAIN state.previous \ {e.to} :
                              state'.previous[k] = state.previous[k]
                    ELSE /\ state'.distances = state.distances
                         /\ state'.previous = state.previous
        ELSE /\ state'.distances = state.distances
             /\ state'.previous = state.previous ]_vars

\* an edge to a vertex already reached was examined and improved nothing
C23_Witness ==
  /\ lastOp = "next"
  /\ shadow # <<>>
  /\ Head(shadow).currentEdge # <<>>
  /\ Head(shadow).currentEdge[1].to # Head(shadow).currentEdge[1].from
  /\ Head(shadow).distances[Head(shadow).currentEdge[1].to] < Infinity
  /\ state.distances = Head(shadow).distances
  /\ state.currentEdge = <<>>

\* C24: once end has left unvisited, the next next() call sets isDone and
\* clears currentVertex and does nothing else, whatever is queued; and
\* isDone implies that end is not in unvisited and currentVertex is none.
C24_TerminationFirst ==
  [][ /\ (lastOp' = "next" /\ EndFinalized /\ ~state.isDone) =>
           state' = [state EXCEPT !.isDone = TRUE, !.currentVertex = None]
      /\ state'.isDone =>
           /\ ~Includes(state'.unvisted, end')
           /\ state'.currentVertex = None ]_vars

\* the run ended with edges of end still queued
C24_Witness ==
  /\ lastOp = "next"
  /\ state.isDone
  /\ state.edgesLeft # <<>>
  /\ shadow # <<>>
  /\ ~Head(shadow).isDone
  /\ Head(shadow).currentVertex = end

\* the snapshot after d next() calls on the initial snapshot
RECURSIVE Replay(_, _, _, _)
Replay(g, s, e, d) ==
  IF d = 0 THEN initDijkstra(g, s) ELSE nextSnapshot(Replay(g, s, e, d - 1), g, e)

\* C25: after any interleaving of next() and prev() calls the snapshot is
\* the one that d next() calls produce from the initial snapshot, d being
\* the undo depth.
C25_SnapshotIsReplay ==
  state = Replay(graph, start, end, Len(undoStack))

\* an undo landed in the middle of an expansion
C25_Witness ==
  /\ lastOp = "prev"
  /\ noops = 0
  /\ Len(undoStack) >= 3
  /\ state.currentEdge # <<>>
  /\ \E k \in DOMAIN state.distances : state.distances[k] = Infinity

\* where following previous from v stops, after at most n steps
RECURSIVE Root(_, _, _)
Root(previous, v, n) ==
  IF n = 0 \/ v \notin DOMAIN previous THEN v
  ELSE IF previous[v] = None THEN v
  ELSE Root(previous, previous[v], n - 1)

\* C26: with non-negative costs previous is a tree rooted at start: a parent
\* p of v is not in unvisited, some edge joins p and v with
\* distances[v] = distances[p] + its cost, following previous from v ends at
\* start, and a vertex has an entry exactly if it is start or its distance is
\* finite.
C26_PreviousIsTree ==
  NonNegative(graph) =>
    /\ \A v \in DOMAIN state.previous :
         state.previous[v] # None =>
           LET p == state.previous[v]
           IN  /\ ~Includes(state.unvisted, p)
               /\ \E i \in DOMAIN graph.edges :
                    /\ Joins(graph, i, p, v)
                    /\ state.distances[v] = state.distances[p] + graph.edges[i].cost
               /\ Root(state.previous, v, Cardinality(Vertices(graph))) = start
    /\ \A v \in Vertices(graph) :
         v \in DOMAIN state.previous
           <=> (v = start \/ state.distances[v] < Infinity)

C26_Witness ==
  /\ graph = defaultGraph
  /\ state.isDone
  /\ state.previous["D"] = "B"
  /\ state.previous["B"] = "A"
  /\ state.previous["E"] = "C"

\* C27: while currentVertex is non-none, currentEdge (if set) and every edge
\* in edgesLeft leads from currentVertex to a vertex still in unvisited.
C27_QueuedEdgesLeadToUnvisited ==
  state.currentVertex # None =>
    \A e \in Range(state.currentEdge) \cup Range(state.edgesLeft) :
      /\ e.from = state.currentVertex
      /\ Includes(state.unvisted, e.to)

====
